---------------------------- MODULE Spec2Model ----------------------------
(***************************************************************************)
(* NikoHealth denials dashboard (src/app.py): one run of the script, from  *)
(* fetch_denials through the payer filter, the key metrics, the charts,    *)
(* the detailed table and the CSV export.                                  *)
(*                                                                         *)
(* Conventions of the model                                                *)
(*   - a text (payer_name, status, created_at, payer_filter, a formatted   *)
(*     date) is a sequence of one-character strings, so that lower(),      *)
(*     regular-expression search, parsing and lexicographic comparison are *)
(*     computed character by character;                                    *)
(*   - a Timestamp is the number of days since 1970-01-01 (every date of   *)
(*     the program is a calendar date at midnight);                        *)
(*   - an amount is a whole number of dollars (the mock amounts are);      *)
(*   - a behaviour is one run of the script with a cold st.cache_data      *)
(*     cache, so fetch_denials executes its body;                          *)
(*   - pc is the section the run has completed: "fetch" (nothing yet),     *)
(*     "loaded", "stopped" (st.stop), "filtered", "metrics", "charts",     *)
(*     "table", "done", and "crashed" for an exception nothing catches;    *)
(*   - payer_filter ranges over patterns made of letters, spaces and ".",  *)
(*     for which re.search is computed exactly;                            *)
(*   - rows of equal key keep their order under sort_values and            *)
(*     value_counts (no property below reads the order of ties).           *)
(***************************************************************************)
EXTENDS Integers, Sequences, FiniteSets

VARIABLES
    USE_REAL_API,   \* line 14: whether an API key is configured
    start_date,     \* line 65: sidebar input, <<y, m, d>>
    end_date,       \* line 66: sidebar input, <<y, m, d>>
    payer_filter,   \* line 67: sidebar input, a text
    pc,             \* position of the script run
    response,       \* what requests.get produced in this run: None, or Some(r)
    df,             \* the working DataFrame: a sequence of rows
    messages,       \* st.warning / st.error / st.info calls, in order
    metrics,        \* lines 82-85: None, or Some(v)
    df_weekly,      \* line 98: None, or Some(v)
    reasons,        \* line 109: None, or Some(v)
    payers,         \* line 118: None, or Some(v)
    df_display,     \* lines 128-132 (as shown, sorted): None, or Some(v)
    csv             \* line 137: None, or Some(v)

vars == <<USE_REAL_API, start_date, end_date, payer_filter, pc, response, df,
          messages, metrics, df_weekly, reasons, payers, df_display, csv>>

-----------------------------------------------------------------------------
(* Characters and texts *)

Digits == <<"0", "1", "2", "3", "4", "5", "6", "7", "8", "9">>
UpperCase == <<"A", "B", "C", "D", "E", "F", "G", "H", "I", "J", "K", "L", "M",
               "N", "O", "P", "Q", "R", "S", "T", "U", "V", "W", "X", "Y", "Z">>
LowerCase == <<"a", "b", "c", "d", "e", "f", "g", "h", "i", "j", "k", "l", "m",
               "n", "o", "p", "q", "r", "s", "t", "u", "v", "w", "x", "y", "z">>

IndexIn(seq, c) == CHOOSE i \in DOMAIN seq : seq[i] = c
IsIn(seq, c) == \E i \in DOMAIN seq : seq[i] = c

\* the code point of a character (ASCII), for the characters the program meets
Ord(c) ==
    CASE c = " " -> 32
      [] c = "$" -> 36
      [] c = "-" -> 45
      [] c = "." -> 46
      [] IsIn(Digits, c) -> 47 + IndexIn(Digits, c)
      [] IsIn(UpperCase, c) -> 64 + IndexIn(UpperCase, c)
      [] IsIn(LowerCase, c) -> 96 + IndexIn(LowerCase, c)

\* str.lower() on one character
LowerChar(c) == IF IsIn(UpperCase, c) THEN LowerCase[IndexIn(UpperCase, c)] ELSE c

\* str.lower()
Lower(s) == [i \in DOMAIN s |-> LowerChar(s[i])]

\* Python's < on str: lexicographic by code point
RECURSIVE StrLess(_, _)
StrLess(a, b) ==
    IF b = <<>> THEN FALSE
    ELSE IF a = <<>> THEN TRUE
    ELSE IF Ord(Head(a)) # Ord(Head(b)) THEN Ord(Head(a)) < Ord(Head(b))
    ELSE StrLess(Tail(a), Tail(b))

-----------------------------------------------------------------------------
(* Dates *)

\* days since 1970-01-01 of the civil date y-m-d (proleptic Gregorian)
DaysFromCivil(y, m, d) ==
    LET yy == IF m <= 2 THEN y - 1 ELSE y
        era == yy \div 400
        yoe == yy - era * 400
        mp == IF m > 2 THEN m - 3 ELSE m + 9
        doy == (153 * mp + 2) \div 5 + d - 1
        doe == yoe * 365 + yoe \div 4 - yoe \div 100 + doy
    IN  era * 146097 + doe - 719468

\* the civil date <<y, m, d>> of a Timestamp
CivilFromDays(z) ==
    LET zz == z + 719468
        era == zz \div 146097
        doe == zz - era * 146097
        yoe == (doe - doe \div 1460 + doe \div 36524 - doe \div 146096) \div 365
        doy == doe - (365 * yoe + yoe \div 4 - yoe \div 100)
        mp == (5 * doy + 2) \div 153
        d == doy - (153 * mp + 2) \div 5 + 1
        m == IF mp < 10 THEN mp + 3 ELSE mp - 9
        y == yoe + era * 400 + (IF m <= 2 THEN 1 ELSE 0)
    IN  <<y, m, d>>

\* Timestamp.weekday(): Monday = 0 .. Sunday = 6 (1970-01-01 was a Thursday)
Weekday(z) == (z + 3) % 7

DigitVal(c) == IndexIn(Digits, c) - 1

RECURSIVE ParseInt(_)
ParseInt(s) == IF s = <<>> THEN 0 ELSE 10 * ParseInt(SubSeq(s, 1, Len(s) - 1)) + DigitVal(s[Len(s)])

\* pd.to_datetime on one ISO text "YYYY-MM-DD"
ToDatetime(s) ==
    DaysFromCivil(ParseInt(SubSeq(s, 1, 4)), ParseInt(SubSeq(s, 6, 7)), ParseInt(SubSeq(s, 9, 10)))

\* zero-padded decimal of n in w characters
RECURSIVE Pad(_, _)
Pad(n, w) == IF w = 0 THEN <<>> ELSE Append(Pad(n \div 10, w - 1), Digits[(n % 10) + 1])

MonthAbbr == << <<"J", "a", "n">>, <<"F", "e", "b">>, <<"M", "a", "r">>, <<"A", "p", "r">>,
                <<"M", "a", "y">>, <<"J", "u", "n">>, <<"J", "u", "l">>, <<"A", "u", "g">>,
                <<"S", "e", "p">>, <<"O", "c", "t">>, <<"N", "o", "v">>, <<"D", "e", "c">> >>

\* Timestamp.strftime("%Y-%b-%d")
StrftimeYbd(z) ==
    LET c == CivilFromDays(z)
    IN  Pad(c[1], 4) \o <<"-">> \o MonthAbbr[c[2]] \o <<"-">> \o Pad(c[3], 2)

-----------------------------------------------------------------------------
(* Sequences *)

\* a function on 1..n as the explicit tuple of its values
Tuple(f) == f \o <<>>

\* sum of a sequence of numbers
RECURSIVE SumSeq(_)
SumSeq(s) ==
    IF s = <<>> THEN 0
    ELSE IF Len(s) = 1 THEN s[1]
    ELSE LET h == Len(s) \div 2
         IN  SumSeq(SubSeq(s, 1, h)) + SumSeq(SubSeq(s, h + 1, Len(s)))

\* list * n
Repeat(s, n) == Tuple([i \in 1..(n * Len(s)) |-> s[((i - 1) % Len(s)) + 1]])

Abs(x) == IF x < 0 THEN -x ELSE x

-----------------------------------------------------------------------------
(* DataFrames: a sequence of rows; a row maps the columns in which it holds a
   value, and a column it lacks reads as NA (None / NaN) *)

HasColumn(frame, c) == \E i \in DOMAIN frame : c \in DOMAIN frame[i]

\* df[name] = values, row by row
WithColumn(row, name, val) ==
    [c \in (DOMAIN row) \cup {name} |-> IF c = name THEN val ELSE row[c]]

Some(x) == <<x>>
None == <<>>

Denied == <<"d", "e", "n", "i", "e", "d">>

\* line 48-54
mock_data == <<
    [id |-> 101, patient_id |-> "PT-1001",
     payer_name |-> <<"M", "e", "d", "i", "c", "a", "r", "e">>,
     status |-> <<"d", "e", "n", "i", "e", "d">>,
     created_at |-> <<"2", "0", "2", "5", "-", "1", "2", "-", "0", "9">>,
     adjustment_amount |-> -425, denial_reason |-> "CO-97: Duplicate", invoice_id |-> "INV-8401"],
    [id |-> 102, patient_id |-> "PT-1005",
     payer_name |-> <<"B", "l", "u", "e", " ", "C", "r", "o", "s", "s">>,
     status |-> <<"d", "e", "n", "i", "e", "d">>,
     created_at |-> <<"2", "0", "2", "5", "-", "1", "2", "-", "0", "8">>,
     adjustment_amount |-> -180, denial_reason |-> "PR-96: Non-covered", invoice_id |-> "INV-8405"],
    [id |-> 103, patient_id |-> "PT-1012",
     payer_name |-> <<"A", "e", "t", "n", "a">>,
     status |-> <<"d", "e", "n", "i", "e", "d">>,
     created_at |-> <<"2", "0", "2", "5", "-", "1", "2", "-", "0", "7">>,
     adjustment_amount |-> -720, denial_reason |-> "CO-45: Charge exceeds fee", invoice_id |-> "INV-8412"],
    [id |-> 104, patient_id |-> "PT-1008",
     payer_name |-> <<"M", "e", "d", "i", "c", "a", "r", "e">>,
     status |-> <<"d", "e", "n", "i", "e", "d">>,
     created_at |-> <<"2", "0", "2", "5", "-", "1", "2", "-", "0", "6">>,
     adjustment_amount |-> -310, denial_reason |-> "CO-16: Missing info", invoice_id |-> "INV-8408"],
    [id |-> 105, patient_id |-> "PT-1020",
     payer_name |-> <<"U", "n", "i", "t", "e", "d", "H", "e", "a", "l", "t", "h", "c", "a", "r", "e">>,
     status |-> <<"d", "e", "n", "i", "e", "d">>,
     created_at |-> <<"2", "0", "2", "5", "-", "1", "2", "-", "0", "5">>,
     adjustment_amount |-> -95, denial_reason |-> "OA-23: Prior payer paid", invoice_id |-> "INV-8420"]
>>

\* line 55: the factor of mock_data * 12
MockRepeat == 12

\* (fault: the sign is kept)
NoAbsAmount(adj) == adj

\* line 37 / line 57: abs() of one adjustment_amount
DenialAmount(adj) == Abs(adj)

\* lines 56-57 on one row
DemoNormalize(row) ==
    WithColumn(WithColumn(row, "date", ToDatetime(row.created_at)),
               "denial_amount", DenialAmount(row.adjustment_amount))

\* lines 47-58: the demo branch; start_date, end_date and payer are not read
FetchDemo(start, end, payer) ==
    LET raw == Repeat(mock_data, MockRepeat)
    IN  [df |-> [i \in DOMAIN raw |-> DemoNormalize(raw[i])],
         msgs |-> << [kind |-> "warning", text |-> <<"Running in demo mode">>] >>,
         raised |-> FALSE]

-----------------------------------------------------------------------------
(* fetch_denials, real-API branch (lines 23-44) *)

\* bool(Series), which Python's `or` on line 36 evaluates first: pandas raises
\* ValueError ("The truth value of a Series is ambiguous") for every Series
SeriesBool(series) == "ValueError"

\* line 35: df["status"].str.lower() == "denied" on one row (NA compares False)
IsDeniedRow(row) == "status" \in DOMAIN row /\ Lower(row.status) = Denied

\* line 37: abs(df["adjustment_amount"].fillna(0)) on one row
FillnaAmount(row) == IF "adjustment_amount" \in DOMAIN row THEN row.adjustment_amount ELSE 0

\* lines 36-37 on one row, were line 36 to yield created_at, else date
RealNormalize(row) ==
    LET src == IF "created_at" \in DOMAIN row THEN Some(row.created_at)
               ELSE IF "date" \in DOMAIN row THEN Some(row.date) ELSE None
        dated == IF src = None THEN row ELSE WithColumn(row, "date", ToDatetime(src[1]))
    IN  WithColumn(dated, "denial_amount", DenialAmount(FillnaAmount(row)))

\* lines 30-41: the body of the try for one outcome of requests.get
TryBody(resp) ==
    IF resp.kind = "exception" THEN [out |-> "raise", exc |-> resp.exc]
    ELSE IF resp.status_code # 200 THEN [out |-> "api_error"]
    ELSE IF resp.body.kind = "invalid" THEN [out |-> "raise", exc |-> "JSONDecodeError"]
    ELSE LET data == resp.body.data
             denied == SelectSeq(data, IsDeniedRow)
         IN  IF ~HasColumn(data, "status") THEN [out |-> "raise", exc |-> "KeyError"]
             ELSE IF ~HasColumn(data, "created_at") THEN [out |-> "raise", exc |-> "KeyError"]
             ELSE IF SeriesBool(Tuple([i \in DOMAIN denied |-> denied[i].created_at])) = "ValueError" THEN [out |-> "raise", exc |-> "ValueError"]
             ELSE [out |-> "return", df |-> [i \in DOMAIN denied |-> RealNormalize(denied[i])]]

\* lines 40-41: the non-200 branch
ApiError(resp) ==
    [df |-> <<>>,
     msgs |-> << [kind |-> "error", text |-> <<"API Error", resp.status_code, resp.text>>] >>,
     raised |-> FALSE]

\* (fault: no handler, the exception leaves fetch_denials)
Propagate(exc) == [df |-> <<>>, msgs |-> <<>>, raised |-> TRUE]

\* lines 42-44: except Exception
ExceptHandler(exc) ==
    [df |-> <<>>, msgs |-> << [kind |-> "error", text |-> <<"Connection error", exc>>] >>,
     raised |-> FALSE]

\* lines 23-44
FetchReal(resp) ==
    LET o == TryBody(resp)
    IN  CASE o.out = "return" -> [df |-> o.df, msgs |-> <<>>, raised |-> FALSE]
          [] o.out = "api_error" -> ApiError(resp)
          [] o.out = "raise" -> ExceptHandler(o.exc)

-----------------------------------------------------------------------------
(* The payer filter (lines 77-78) *)

\* one pattern character against one character under re.IGNORECASE: "." is any
\* character, every other character of the modelled patterns is a literal
MatchChar(p, c) == p = "." \/ LowerChar(p) = LowerChar(c)

\* re.search(pat, s, re.IGNORECASE) for a pattern of literals and "."
RegexContains(pat, s) ==
    \E i \in 1..(Len(s) - Len(pat) + 1) : \A k \in 1..Len(pat) : MatchChar(pat[k], s[i + k - 1])

\* line 78: str.contains(payer_filter, case=False, na=False); regex=True is the default
StrContains(pat, s) == RegexContains(pat, s)

\* line 78: astype(str) on the payer_name of one row; NA becomes the text "nan"
AsTypeStr(row) == IF "payer_name" \in DOMAIN row THEN row.payer_name ELSE <<"n", "a", "n">>

\* lines 77-78
ApplyPayerFilter(frame, pat) ==
    IF pat = <<>> THEN frame
    ELSE LET Keep(row) == StrContains(pat, AsTypeStr(row))
         IN  SelectSeq(frame, Keep)

-----------------------------------------------------------------------------
(* Key metrics (lines 82-85) *)

\* line 85: the constant of the rate estimate
RateOffset == 500

Amounts(frame) == Tuple([i \in DOMAIN frame |-> frame[i].denial_amount])

\* (fault: the count is off by one)
MeanOverCountLessOne(xs) == <<SumSeq(xs), Len(xs) - 1>>

\* Series.mean() as the exact quotient <<sum, count>>; <<0, 0>> is NaN
Mean(xs) == <<SumSeq(xs), Len(xs)>>

\* line 85: (n / (n + 500)) * 100 to one decimal, in tenths of a percent
DenialRate(n) == (2000 * n + (n + RateOffset)) \div (2 * (n + RateOffset))

KeyMetrics(frame) ==
    [total_denials |-> Len(frame),
     total_amount |-> SumSeq(Amounts(frame)),
     avg_denial |-> Mean(Amounts(frame)),
     denial_rate |-> DenialRate(Len(frame))]

-----------------------------------------------------------------------------
(* The weekly trend (line 98): resample("W-Mon", on="date").sum() *)

\* "W-Mon": weeks anchored on (ending on) weekday 0, Monday
WeekAnchor == 0

Min(S) == CHOOSE x \in S : \A y \in S : x <= y
Max(S) == CHOOSE x \in S : \A y \in S : x >= y

\* ts - Week(weekday=anchor): the anchor day strictly before ts
MinusWeek(ts) == ts - (IF Weekday(ts) = WeekAnchor THEN 7 ELSE (Weekday(ts) - WeekAnchor) % 7)

\* ts + Week(weekday=anchor): the anchor day strictly after ts
PlusWeek(ts) == ts + (IF Weekday(ts) = WeekAnchor THEN 7 ELSE (WeekAnchor - Weekday(ts)) % 7)

\* (fault: the first edge is the earliest value itself)
BinEdgesFromFirstValue(dates) ==
    LET first == Min(dates)
        last == PlusWeek(Max(dates))
    IN  [k \in 1..((last - first) \div 7 + 1) |-> first + 7 * (k - 1)]

\* the bin edges: date_range(first, last, freq), less the last edge when the edge
\* before it (taken at the end of its day) is already past the latest value
BinEdges(dates) ==
    LET first == MinusWeek(Min(dates))
        last == PlusWeek(Max(dates))
        binner == [k \in 1..((last - first) \div 7 + 1) |-> first + 7 * (k - 1)]
    IN  IF binner[Len(binner) - 1] >= Max(dates)
        THEN SubSeq(binner, 1, Len(binner) - 1) ELSE binner

\* (fault: bins closed on the left)
InBinLeftClosed(ts, lo, hi) == lo <= ts /\ ts < hi

\* the bins are closed on the right and labelled by their right edge
InBin(ts, lo, hi) == lo < ts /\ ts <= hi

\* sum() of the bin (lo, hi]: 0 for a bin without rows
BinSum(frame, lo, hi) ==
    LET In(row) == InBin(row.date, lo, hi)
    IN  SumSeq(Amounts(SelectSeq(frame, In)))

Resample(frame) ==
    IF frame = <<>> THEN <<>>
    ELSE LET edges == BinEdges({frame[i].date : i \in DOMAIN frame})
         IN  [k \in 1..(Len(edges) - 1) |->
                [date |-> edges[k + 1], denial_amount |-> BinSum(frame, edges[k], edges[k + 1])]]

-----------------------------------------------------------------------------
(* Top groupings (lines 109, 118): value_counts().head(8) *)

\* head(8)
TopN == 8

\* the rows of s, greatest key first, rows of equal key in their order in s, where
\* less[i][j] tells whether the key of s[i] is less than the key of s[j]: row j
\* stands before row i when its key is greater, or equal and j < i
ByRank(s, rank) == [k \in DOMAIN s |-> s[CHOOSE i \in DOMAIN s : rank[i] = k]]

SortDesc(s, less) ==
    LET n == Len(s)
        Before(j, i) == less[i][j] \/ (~less[j][i] /\ j < i)
    IN  ByRank(s, Tuple([i \in 1..n |-> Cardinality({j \in 1..n : j # i /\ Before(j, i)}) + 1]))

\* the distinct values of xs in the order of their first occurrence
Distinct(xs) ==
    LET IsFirst(i) == \A j \in 1..(i - 1) : xs[j] # xs[i]
        firsts == SelectSeq([i \in DOMAIN xs |-> i], IsFirst)
    IN  [k \in DOMAIN firsts |-> xs[firsts[k]]]

ValueCountsHead(xs) ==
    LET vals == Distinct(xs)
        counted == [i \in DOMAIN vals |->
                      [value |-> vals[i], count |-> Cardinality({j \in DOMAIN xs : xs[j] = vals[i]})]]
        fewer == Tuple([i \in DOMAIN counted |->
                          Tuple([j \in DOMAIN counted |-> counted[i].count < counted[j].count])])
        sorted == SortDesc(Tuple(counted), fewer)
    IN  SubSeq(sorted, 1, IF Len(sorted) < TopN THEN Len(sorted) ELSE TopN)

-----------------------------------------------------------------------------
(* The detailed table (lines 127-132) *)

\* decimal digits of n >= 0
RECURSIVE Dec(_)
Dec(n) == IF n < 10 THEN <<Digits[n + 1]>> ELSE Append(Dec(n \div 10), Digits[(n % 10) + 1])

\* the "," grouping of the integer part
RECURSIVE Grouped(_)
Grouped(n) == IF n < 1000 THEN Dec(n) ELSE Grouped(n \div 1000) \o <<",">> \o Pad(n % 1000, 3)

\* "${:,.2f}".format
FormatMoney(n) == <<"$">> \o Grouped(n) \o <<".", "0", "0">>

\* lines 128-130 on row i of df; index is the row's label, which the copy keeps
DisplayRow(row, i) ==
    [index |-> i, date |-> StrftimeYbd(row.date), patient_id |-> row.patient_id,
     payer_name |-> row.payer_name, denial_reason |-> row.denial_reason,
     denial_amount |-> FormatMoney(row.denial_amount), invoice_id |-> row.invoice_id]

\* line 132: the order of sort_values("date", ascending=False) on the formatted column
DisplayDateLess(a, b) == StrLess(a.date, b.date)

DetailedTable(frame) ==
    LET rows == Tuple([i \in DOMAIN frame |-> DisplayRow(frame[i], i)])
        less == Tuple([i \in DOMAIN rows |->
                         Tuple([j \in DOMAIN rows |-> DisplayDateLess(rows[i], rows[j])])])
    IN  SortDesc(rows, less)

-----------------------------------------------------------------------------
(* The export (line 137): df.to_csv(index=False) *)

CsvColumns == <<"id", "patient_id", "payer_name", "status", "created_at", "adjustment_amount",
                "denial_reason", "invoice_id", "date", "denial_amount">>

ToCsv(frame) ==
    LET cols == SelectSeq(CsvColumns, LAMBDA c : HasColumn(frame, c))
        Cell(row, c) == IF c \in DOMAIN row THEN Some(row[c]) ELSE None
    IN  <<cols>> \o [i \in DOMAIN frame |-> [k \in DOMAIN cols |-> Cell(frame[i], cols[k])]]

-----------------------------------------------------------------------------
(* Inputs of a run *)

\* sidebar date ranges: the default 30 days, a range before every mock date, and a
\* range inside the mock dates
DateRanges == { << <<2025, 11, 9>>, <<2025, 12, 9>> >>,
                << <<2025, 1, 1>>, <<2025, 1, 31>> >>,
                << <<2025, 12, 6>>, <<2025, 12, 7>> >> }

\* sidebar payer texts
PayerFilters == { <<>>,
                  <<"m", "e", "d", "i", "c", "a", "r", "e">>,
                  <<"M", "E", "D", "I", "C", "A", "R", "E">>,
                  <<"a">>,
                  <<"z", "z", "z">>,
                  <<".">>,
                  <<"m", ".", "d">>,
                  <<"b", "l", "u", "e", " ", "c", "r", "o", "s", "s">> }

\* longest `data` array the API returns
MaxApiRecords == 2

\* records of an API `data` array
RawRows == {
    [status |-> <<"d", "e", "n", "i", "e", "d">>, created_at |-> <<"2", "0", "2", "5", "-", "1", "1", "-", "3", "0">>, adjustment_amount |-> -100,
     payer_name |-> <<"A", "e", "t", "n", "a">>],
    [status |-> <<"D", "E", "N", "I", "E", "D">>, created_at |-> <<"2", "0", "2", "5", "-", "1", "2", "-", "0", "1">>, adjustment_amount |-> 250,
     payer_name |-> <<"M", "e", "d", "i", "c", "a", "r", "e">>],
    [status |-> <<"p", "a", "i", "d">>, created_at |-> <<"2", "0", "2", "5", "-", "1", "2", "-", "0", "2">>, adjustment_amount |-> -40,
     payer_name |-> <<"A", "e", "t", "n", "a">>],
    [status |-> <<"D", "e", "n", "i", "e", "d">>, created_at |-> <<"2", "0", "2", "5", "-", "1", "2", "-", "0", "9">>,
     payer_name |-> <<"C", "i", "g", "n", "a">>],
    [date |-> <<"2", "0", "2", "5", "-", "1", "2", "-", "0", "3">>, adjustment_amount |-> -75,
     payer_name |-> <<"A", "e", "t", "n", "a">>] }

DataLists == UNION { [1..n -> RawRows] : n \in 0..MaxApiRecords }

\* outcomes of requests.get (line 30) and of response.json() (line 32)
ApiResponses ==
    { [kind |-> "exception", exc |-> e] : e \in {"Timeout", "ConnectionError"} }
    \cup { [kind |-> "http", status_code |-> c, text |-> "body", body |-> [kind |-> "invalid"]] :
             c \in {500, 404, 200} }
    \cup { [kind |-> "http", status_code |-> 200, text |-> "body", body |-> [kind |-> "json", data |-> d]] :
             d \in DataLists }

-----------------------------------------------------------------------------
(* One run of the script *)

Init ==
    /\ USE_REAL_API \in BOOLEAN
    /\ \E range \in DateRanges : start_date = range[1] /\ end_date = range[2]
    /\ payer_filter \in PayerFilters
    /\ pc = "fetch"
    /\ response = None
    /\ df = <<>>
    /\ messages = <<>>
    /\ metrics = None
    /\ df_weekly = None
    /\ reasons = None
    /\ payers = None
    /\ df_display = None
    /\ csv = None

\* line 70, demo branch of fetch_denials
FetchDenialsDemo ==
    /\ pc = "fetch"
    /\ ~USE_REAL_API
    /\ LET r == FetchDemo(start_date, end_date, payer_filter)
       IN  /\ df' = r.df
           /\ messages' = messages \o r.msgs
           /\ pc' = IF r.raised THEN "crashed" ELSE "loaded"
    /\ UNCHANGED <<USE_REAL_API, start_date, end_date, payer_filter, response, metrics,
                   df_weekly, reasons, payers, df_display, csv>>

\* line 70, real-API branch of fetch_denials
FetchDenialsReal ==
    /\ pc = "fetch"
    /\ USE_REAL_API
    /\ \E resp \in ApiResponses :
          LET r == FetchReal(resp)
          IN  /\ response' = Some(resp)
              /\ df' = r.df
              /\ messages' = messages \o r.msgs
              /\ pc' = IF r.raised THEN "crashed" ELSE "loaded"
    /\ UNCHANGED <<USE_REAL_API, start_date, end_date, payer_filter, metrics,
                   df_weekly, reasons, payers, df_display, csv>>

\* df.empty
IsEmpty(frame) == frame = <<>>

\* lines 72-74
EmptyStop ==
    /\ pc = "loaded"
    /\ IsEmpty(df)
    /\ messages' = Append(messages, [kind |-> "info", text |-> <<"No denials found in the selected date range.">>])
    /\ pc' = "stopped"
    /\ UNCHANGED <<USE_REAL_API, start_date, end_date, payer_filter, response, df, metrics,
                   df_weekly, reasons, payers, df_display, csv>>

\* lines 72, 77-78
PayerFilterStep ==
    /\ pc = "loaded"
    /\ ~IsEmpty(df)
    /\ df' = ApplyPayerFilter(df, payer_filter)
    /\ pc' = "filtered"
    /\ UNCHANGED <<USE_REAL_API, start_date, end_date, payer_filter, response, messages, metrics,
                   df_weekly, reasons, payers, df_display, csv>>

\* lines 81-94
MetricsStep ==
    /\ pc = "filtered"
    /\ metrics' = Some(KeyMetrics(df))
    /\ pc' = "metrics"
    /\ UNCHANGED <<USE_REAL_API, start_date, end_date, payer_filter, response, df, messages,
                   df_weekly, reasons, payers, df_display, csv>>

\* lines 97-123
ChartsStep ==
    /\ pc = "metrics"
    /\ df_weekly' = Some(Resample(df))
    /\ reasons' = Some(ValueCountsHead(Tuple([i \in DOMAIN df |-> df[i].denial_reason])))
    /\ payers' = Some(ValueCountsHead(Tuple([i \in DOMAIN df |-> df[i].payer_name])))
    /\ pc' = "charts"
    /\ UNCHANGED <<USE_REAL_API, start_date, end_date, payer_filter, response, df, messages,
                   metrics, df_display, csv>>

\* lines 126-132
TableStep ==
    /\ pc = "charts"
    /\ df_display' = Some(DetailedTable(df))
    /\ pc' = "table"
    /\ UNCHANGED <<USE_REAL_API, start_date, end_date, payer_filter, response, df, messages,
                   metrics, df_weekly, reasons, payers, csv>>

\* lines 135-149
ExportStep ==
    /\ pc = "table"
    /\ csv' = Some(ToCsv(df))
    /\ messages' = IF ~USE_REAL_API
                    THEN Append(messages, [kind |-> "info", text |-> <<"You're seeing demo data.">>])
                    ELSE messages
    /\ pc' = "done"
    /\ UNCHANGED <<USE_REAL_API, start_date, end_date, payer_filter, response, df,
                   metrics, df_weekly, reasons, payers, df_display>>

Next ==
    \/ FetchDenialsDemo
    \/ FetchDenialsReal
    \/ EmptyStop
    \/ PayerFilterStep
    \/ MetricsStep
    \/ ChartsStep
    \/ TableStep
    \/ ExportStep

Spec == Init /\ [][Next]_vars

-----------------------------------------------------------------------------
(* Lines 80-140 as a function of the filtered frame: the aggregation, the table
   and the export applied to every frame of at most MaxRecords normalized rows *)

MaxRecords == 2
MaxAmount == 1

\* a Monday, the Sunday and the Monday two weeks later, and a Tuesday
AggDates == { DaysFromCivil(2025, 11, 17), DaysFromCivil(2025, 11, 30),
              DaysFromCivil(2025, 12, 1), DaysFromCivil(2025, 12, 9) }

AggPayers == { <<"M", "e", "d", "i", "c", "a", "r", "e">>, <<"A", "e", "t", "n", "a">> }

AggRows ==
    { [date |-> d, denial_amount |-> a, payer_name |-> p, patient_id |-> "PT-1001",
       denial_reason |-> "CO-97: Duplicate", invoice_id |-> "INV-8401"] :
        d \in AggDates, a \in 0..MaxAmount, p \in AggPayers }

AggFrames == UNION { [1..n -> AggRows] : n \in 0..MaxRecords }

InitAgg ==
    /\ USE_REAL_API = TRUE
    /\ start_date = <<2025, 11, 9>>
    /\ end_date = <<2025, 12, 9>>
    /\ payer_filter = <<>>
    /\ pc = "filtered"
    /\ response = None
    /\ df \in AggFrames
    /\ messages = <<>>
    /\ metrics = None
    /\ df_weekly = None
    /\ reasons = None
    /\ payers = None
    /\ df_display = None
    /\ csv = None

NextAgg ==
    \/ MetricsStep
    \/ ChartsStep
    \/ TableStep
    \/ ExportStep

SpecAgg == InitAgg /\ [][NextAgg]_vars

-----------------------------------------------------------------------------
(* Properties *)

Computed(v) == v # None

\* the dates of the mock records
MockDates == { ToDatetime(mock_data[i].created_at) : i \in DOMAIN mock_data }

SidebarDay(c) == DaysFromCivil(c[1], c[2], c[3])

RangeHoldsNoMockDate ==
    \A d \in MockDates : ~(SidebarDay(start_date) <= d /\ d <= SidebarDay(end_date))

NothingAggregated ==
    /\ metrics = None
    /\ df_weekly = None
    /\ reasons = None
    /\ payers = None
    /\ df_display = None
    /\ csv = None

InfoEmpty == [kind |-> "info", text |-> <<"No denials found in the selected date range.">>]

\* C1 (as claimed): in demo mode with no payer filter the metrics are total_count =
\* 60, total_amount = 21,720 and average_amount = 362.00.
C1_DemoTotalsAsClaimed ==
    (~USE_REAL_API /\ payer_filter = <<>> /\ pc \in {"metrics", "charts", "table", "done"}) =>
        /\ Computed(metrics)
        /\ metrics[1].total_denials = 60
        /\ metrics[1].total_amount = 21720
        /\ metrics[1].avg_denial[2] > 0
        /\ metrics[1].avg_denial[1] = 362 * metrics[1].avg_denial[2]

\* C1 (amended): in demo mode with no payer filter the metrics are total_count =
\* 60, total_amount = 12 x (425 + 180 + 720 + 310 + 95) = 20,760 and
\* average_amount = 346.00.
C1_DemoTotals ==
    (~USE_REAL_API /\ payer_filter = <<>> /\ pc \in {"metrics", "charts", "table", "done"}) =>
        /\ Computed(metrics)
        /\ metrics[1].total_denials = 60
        /\ metrics[1].total_amount = 20760
        /\ metrics[1].avg_denial[2] > 0
        /\ metrics[1].avg_denial[1] = 346 * metrics[1].avg_denial[2]

C1_Witness ==
    /\ ~USE_REAL_API
    /\ payer_filter = <<>>
    /\ pc = "done"
    /\ Computed(metrics)
    /\ metrics[1].total_denials = 60
    /\ Len(df) = 60

\* C2: in demo mode, a date range that holds none of the mock dates gives
\* total_count = 0 and the run ends in the informational empty state, with no
\* metric, chart or average computed.
C2_EmptyRangeIsEmptyState ==
    (~USE_REAL_API /\ pc # "fetch" /\ RangeHoldsNoMockDate) =>
        /\ Len(df) = 0
        /\ pc \in {"loaded", "stopped"}
        /\ NothingAggregated

\* C3: whenever the record set is empty after all filtering, the run stops at the
\* informational empty state: no metric, weekly series or grouping is computed and
\* the average is never taken over zero records.
C3_EmptyAfterFilterStops ==
    /\ (IsEmpty(df) /\ pc \notin {"fetch", "loaded", "filtered"}) =>
            (pc = "stopped" /\ messages[Len(messages)] = InfoEmpty /\ NothingAggregated)
    /\ Computed(metrics) => metrics[1].avg_denial[2] # 0

\* C4: in real-API mode every failed fetch (a non-200 status, or an exception
\* raised while calling the API or processing the response) returns an empty
\* record set with a surfaced error (carrying the status code for a non-200
\* status), never propagates, and the run goes on as for an empty result: the
\* informational message, then stop.
FetchFailed(resp) == TryBody(resp).out # "return"

C4_FailedFetchAbsorbed ==
    (USE_REAL_API /\ Computed(response) /\ FetchFailed(response[1])) =>
        /\ pc \in {"loaded", "stopped"}
        /\ IsEmpty(df)
        /\ Len(messages) >= 1
        /\ messages[1].kind = "error"
        /\ (response[1].kind = "http" /\ response[1].status_code # 200) =>
               (messages[1].text[1] = "API Error" /\ messages[1].text[2] = response[1].status_code)
        /\ pc = "loaded" => (messages = <<messages[1]>> /\ ENABLED EmptyStop /\ ~ENABLED PayerFilterStep)
        /\ pc = "stopped" => messages = <<messages[1], InfoEmpty>>
        /\ NothingAggregated

C4_Witness ==
    /\ USE_REAL_API
    /\ pc = "stopped"
    /\ Computed(response)
    /\ response[1].kind = "http"
    /\ response[1].status_code = 500
    /\ messages = << [kind |-> "error", text |-> <<"API Error", 500, "body">>], InfoEmpty >>

\* C5: in real-API mode a 200 response with a data array makes fetch_denials return
\* exactly the records whose status is "denied" (case-insensitively), in input
\* order, each with date parsed from created_at (else date) and denial_amount =
\* abs(adjustment_amount or 0); a response holding denied records gives a
\* non-empty result.
ClaimedRecord(row) ==
    LET text == IF "created_at" \in DOMAIN row THEN row.created_at ELSE row.date
        amount == IF "adjustment_amount" \in DOMAIN row THEN Abs(row.adjustment_amount) ELSE 0
    IN  WithColumn(WithColumn(row, "date", ToDatetime(text)), "denial_amount", amount)

ClaimedDenials(data) ==
    LET IsDenied(row) == "status" \in DOMAIN row /\ Lower(row.status) = Denied
        kept == SelectSeq(data, IsDenied)
    IN  [i \in DOMAIN kept |-> ClaimedRecord(kept[i])]

C5_OkResponseReturnsDenied ==
    (/\ USE_REAL_API
     /\ Computed(response)
     /\ response[1].kind = "http"
     /\ response[1].status_code = 200
     /\ response[1].body.kind = "json") =>
        /\ pc # "crashed"
        /\ df = ClaimedDenials(response[1].body.data)

\* C6 (as claimed): every record is in the bucket labelled with the Monday on or
\* before its date, the bucket sums are the sums of denial_amount, the buckets are
\* in chronological order, and only weeks holding a record have an entry.
MondayOnOrBefore(ts) == ts - Weekday(ts)
MondayOnOrAfter(ts) == ts + ((7 - Weekday(ts)) % 7)

\* the sum of denial_amount over the rows whose week label, under label, is day
SumOfWeek(frame, label, day) ==
    SumSeq(Amounts(SelectSeq(frame, LAMBDA r : label[r.date] = day)))

C7_WeeklySumIsTotal ==
    (Computed(metrics) /\ Computed(df_weekly)) =>
        SumSeq(Tuple([k \in DOMAIN df_weekly[1] |-> df_weekly[1][k].denial_amount]))
            = metrics[1].total_amount

C7_Witness ==
    /\ Computed(metrics)
    /\ Computed(df_weekly)
    /\ Len(df_weekly[1]) >= 2
    /\ metrics[1].total_amount > 0
    /\ \E i, j \in DOMAIN df : df[i].date # df[j].date /\ df[i].denial_amount > 0 /\ df[j].denial_amount > 0

\* C8: the payer filter keeps exactly the records whose payer_name contains the
\* filter text as a literal substring, case-insensitively, in input order; an
\* empty filter keeps every record; "medicare" and "MEDICARE" keep the same
\* records; on the demo data "medicare" gives total_count = 24 and total_amount =
\* 8,820.
\* text is a substring of s, letter case ignored
LiteralContains(pat, s) ==
    \E i \in 1..(Len(s) - Len(pat) + 1) : \A k \in 1..Len(pat) : LowerChar(pat[k]) = LowerChar(s[i + k - 1])

LiteralFilter(frame, text) ==
    LET Keep(row) == LiteralContains(text, row.payer_name)
    IN  IF text = <<>> THEN frame ELSE SelectSeq(frame, Keep)

Fetched == FetchDemo(start_date, end_date, payer_filter).df

C8_LiteralSubstringFilter ==
    (~USE_REAL_API /\ pc \in {"filtered", "metrics", "charts", "table", "done"}) =>
        /\ df = LiteralFilter(Fetched, payer_filter)
        /\ Lower(payer_filter) = <<"m", "e", "d", "i", "c", "a", "r", "e">> => df = LiteralFilter(Fetched, <<"m", "e", "d", "i", "c", "a", "r", "e">>)
        /\ (payer_filter = <<"m", "e", "d", "i", "c", "a", "r", "e">> /\ Computed(metrics)) =>
               (metrics[1].total_denials = 24 /\ metrics[1].total_amount = 8820)

\* C9: every record fetch_denials returns has denial_amount >= 0, and no later
\* step of the run changes a record of df: each row of df after a step is a row
\* df held before it, with the same denial_amount.
C9_AmountsNonNegativeAndKept ==
    /\ [](\A i \in DOMAIN df : df[i].denial_amount >= 0)
    /\ [][pc # "fetch" => \A i \in DOMAIN df' : \E j \in DOMAIN df : df'[i] = df[j]]_vars

C9_Witness ==
    /\ pc = "done"
    /\ Computed(df_display)
    /\ Computed(csv)
    /\ \E i \in DOMAIN df : df[i].adjustment_amount < 0 /\ df[i].denial_amount = -df[i].adjustment_amount

=============================================================================
